---- MODULE Spec2Model ----
(***************************************************************************)
(* Model of pythx.api.handler: APIHandler (assemble_request, send_request, *)
(* parse_response, execute_request_middlewares,                            *)
(* execute_response_middlewares) and the print_request / print_response    *)
(* trace helpers.                                                          *)
(*                                                                         *)
(* Text is a sequence of Unicode code points, bytes are a sequence of      *)
(* naturals below 256.  A Python dict that is shared by reference lives in *)
(* `heap`; values that the handler never mutates are kept by value.        *)
(***************************************************************************)
EXTENDS Integers, Sequences, FiniteSets, TLC

VARIABLES
    middlewares,  \* self.middlewares
    mode,         \* self.mode
    reqs,         \* the caller's domain request objects
    heap,         \* the header dicts, by reference
    desc,         \* per caller: the request data dictionary it holds
    model,        \* per caller: the response model object it holds
    pc,           \* per caller: how far its invocation of the pipeline is
    arg,          \* per caller: the inputs of its last operation
    out,          \* per caller: the outcome of its last operation
    calls,        \* the network calls performed (requests.request), in order
    sends         \* number of send_request invocations

vars == <<middlewares, mode, reqs, heap, desc, model, pc, arg, out, calls, sends>>

----------------------------------------------------------------------------
(* Bounds *)

MaxBody == 2      \* longest response body, in bytes
MaxChain == 3     \* longest middleware chain

Invs == {1, 2}    \* the callers of one handler
ReqIds == {1, 2}  \* the domain request objects the callers hold

----------------------------------------------------------------------------
(* Text and bytes *)

RECURSIVE SeqsUpTo(_, _)
SeqsUpTo(S, n) ==
    IF n = 0 THEN {<<>>}
    ELSE LET shorter == SeqsUpTo(S, n - 1)
         IN  shorter \cup {Append(s, x) : s \in {t \in shorter : Len(t) = n - 1}, x \in S}

\* s occurs in t as a contiguous run (Python: s in t)
Contains(t, s) ==
    \E k \in 0..(Len(t) - Len(s)) :
        \A j \in 1..Len(s) : t[k + j] = s[j]

\* the text as it is written, in whatever case
AsWritten(s) == s

\* str.upper() on ASCII text
Upper(s) == [k \in DOMAIN s |-> IF s[k] \in 97..122 THEN s[k] - 32 ELSE s[k]]

\* "{}".format(n) for a natural number: its decimal digits
RECURSIVE Decimal(_)
Decimal(n) == IF n < 10 THEN <<48 + n>> ELSE Append(Decimal(n \div 10), 48 + (n % 10))

ReplacementChar == 65533

\* bytes.decode(): strict UTF-8; ok = FALSE stands for UnicodeDecodeError.
\* One- and two-byte forms (code points below U+0800).
RECURSIVE Utf8Strict(_)
Utf8Strict(bs) ==
    IF bs = <<>> THEN [ok |-> TRUE, text |-> <<>>]
    ELSE IF bs[1] < 128
         THEN LET r == Utf8Strict(Tail(bs))
              IN  [ok |-> r.ok, text |-> <<bs[1]>> \o r.text]
    ELSE IF bs[1] \in 194..223 /\ Len(bs) >= 2 /\ bs[2] \in 128..191
         THEN LET r == Utf8Strict(SubSeq(bs, 3, Len(bs)))
              IN  [ok |-> r.ok, text |-> <<(bs[1] - 192) * 64 + (bs[2] - 128)>> \o r.text]
    ELSE [ok |-> FALSE, text |-> <<>>]

\* str(content, "utf-8", errors="replace")
RECURSIVE Utf8Replace(_)
Utf8Replace(bs) ==
    IF bs = <<>> THEN <<>>
    ELSE IF bs[1] < 128 THEN <<bs[1]>> \o Utf8Replace(Tail(bs))
    ELSE IF bs[1] \in 194..223 /\ Len(bs) >= 2 /\ bs[2] \in 128..191
         THEN <<(bs[1] - 192) * 64 + (bs[2] - 128)>> \o Utf8Replace(SubSeq(bs, 3, Len(bs)))
    ELSE <<ReplacementChar>> \o Utf8Replace(Tail(bs))

\* str(content, "ISO-8859-1", errors="replace"): every byte is its code point
Latin1(bs) == bs

----------------------------------------------------------------------------
(* Header dicts *)

HeaderKeys == {"Authorization", "X-Mark"}

EmptyMap == [k \in {} |-> <<>>]

\* a merge in which the keys already present keep their value
UpdateKeepExisting(h, other) ==
    [k \in (DOMAIN h) \cup (DOMAIN other) |-> IF k \in DOMAIN h THEN h[k] ELSE other[k]]

\* dict.update(other), as a value
Update(h, other) ==
    [k \in (DOMAIN h) \cup (DOMAIN other) |-> IF k \in DOMAIN other THEN other[k] ELSE h[k]]

HeaderMaps(values) ==
    UNION {[ks -> values] : ks \in SUBSET HeaderKeys}

\* the access token carried by caller i's auth header: "t1", "t2", ...
Token(i) == <<116, 48 + i>>

OwnValue == <<111>>       \* "o": a header value set by the domain request itself

\* auth_header: None, or a mapping
AuthNone == [given |-> FALSE, map |-> EmptyMap]
AuthOf(m) == [given |-> TRUE, map |-> m]
AuthHeaders(i) ==
    {AuthNone, AuthOf(EmptyMap), AuthOf([k \in {"Authorization"} |-> Token(i)])}

----------------------------------------------------------------------------
(* The request data dictionary and the transport *)

\* <<"req", r>>: the headers dict stored in domain request r;
\* <<"inv", i>>: a dict that req.headers built for caller i's assemble_request;
\* <<"copy", i>>: a dict that a middleware built while serving caller i
Refs == {<<"req", r>> : r \in ReqIds} \cup {<<"inv", i>> : i \in Invs}
            \cup {<<"copy", i>> : i \in Invs}

URLs == {[scheme |-> "https", netloc |-> "api.mythx.io", path |-> <<"", "v1", "analyses">>]}

\* caller i holds no descriptor yet
NoDesc(i) ==
    [method |-> <<>>, payload |-> [t |-> "None", s |-> <<>>], params |-> EmptyMap,
     headers |-> <<"inv", i>>, url |-> CHOOSE u \in URLs : TRUE]

Methods == {<<103, 101, 116>>, <<71, 69, 84>>, <<112, 111, 115, 116>>}  \* "get", "GET", "post"

\* payloads: None, the empty string, a one-letter string, the empty dict
PayloadNone == [t |-> "None", s |-> <<>>]
Payloads == {PayloadNone, [t |-> "str", s |-> <<>>], [t |-> "str", s |-> <<97>>],
             [t |-> "dict", s |-> <<>>]}

ParamMaps == {EmptyMap, [k \in {"limit"} |-> <<49>>]}

\* json.dumps(payload) for the payloads above
JsonDumps(p) ==
    IF p.t = "str" THEN <<34>> \o p.s \o <<34>> ELSE <<123, 125>>

\* PreparedRequest.body of requests.request(json=payload): None when there
\* is no payload, else the UTF-8 bytes of json.dumps(payload)
RequestBody(payload) ==
    IF payload = PayloadNone
    THEN [some |-> FALSE, bytes |-> <<>>]
    ELSE [some |-> TRUE, bytes |-> JsonDumps(payload)]

Statuses == {200, 201, 301, 400, 401, 404, 500, 503}
BodyBytes == {125, 195, 169}       \* '}', and the two bytes of U+00E9 in UTF-8
Encodings == {"utf-8", "ISO-8859-1"}

Responses ==
    [status_code : Statuses, content : SeqsUpTo(BodyBytes, MaxBody), encoding : Encodings]

\* the responses of the pipeline specification: "{}" or "}", accepted or not
PipelineResponses ==
    [status_code : {200, 404}, content : {<<123, 125>>, <<125>>}, encoding : {"utf-8"}]

\* Response.text: the content decoded with the response's encoding, errors="replace"
ResponseText(res) ==
    IF res.encoding = "utf-8" THEN Utf8Replace(res.content) ELSE Latin1(res.content)

NoFault == [type |-> "none", msg |-> <<>>, by |-> 0]

\* print_request(req): faults when req.body is None (None has no decode)
print_request(body) ==
    IF ~body.some
    THEN [ok |-> FALSE, fault |-> [type |-> "AttributeError", msg |-> <<>>, by |-> 0]]
    ELSE LET b == Utf8Strict(body.bytes)
         IN  IF b.ok THEN [ok |-> TRUE, fault |-> NoFault]
             ELSE [ok |-> FALSE, fault |-> [type |-> "UnicodeDecodeError", msg |-> <<>>, by |-> 0]]

\* print_response(res): faults when res.content is not UTF-8
print_response(res) ==
    IF Utf8Strict(res.content).ok
    THEN [ok |-> TRUE, fault |-> NoFault]
    ELSE [ok |-> FALSE, fault |-> [type |-> "UnicodeDecodeError", msg |-> <<>>, by |-> 0]]

\* "Got unexpected status code "
ErrorPrefix ==
    <<71, 111, 116, 32, 117, 110, 101, 120, 112, 101, 99, 116, 101, 100, 32,
      115, 116, 97, 116, 117, 115, 32, 99, 111, 100, 101, 32>>

\* a message that leaves the body out
ErrorMessageStatusOnly(res) ==
    ErrorPrefix \o Decimal(res.status_code)

\* "Got unexpected status code {}: {}".format(status_code, content.decode())
ErrorMessage(res) ==
    ErrorPrefix \o Decimal(res.status_code) \o <<58, 32>> \o Utf8Strict(res.content).text

StatusAccepted(res) == res.status_code = 200

\* what send_request does after the network call returned res:
\* the two trace lines, the status gate, the return value
SendOutcome(payload, res) ==
    LET t1 == print_request(RequestBody(payload))
        t2 == print_response(res)
        base == [op |-> "send", kind |-> "raise", value |-> <<>>, fault |-> NoFault,
                 traced |-> 0, log |-> <<>>, ret |-> <<>>]
    IN  IF ~t1.ok
        THEN [base EXCEPT !.fault = t1.fault]
        ELSE IF ~t2.ok
        THEN [base EXCEPT !.fault = t2.fault, !.traced = 1]
        ELSE IF ~StatusAccepted(res)
        THEN [base EXCEPT !.fault = [type |-> "PythXAPIError", msg |-> ErrorMessage(res),
                                     by |-> 0],
                          !.traced = 2]
        ELSE [base EXCEPT !.kind = "return", !.value = ResponseText(res), !.traced = 2]

\* the network call of send_request: requests.request(method=..., url=..., ...)
NetworkCall(i, d, headers) ==
    [inv |-> i, method |-> Upper(d.method), url |-> d.url, headers |-> headers,
     json |-> d.payload, params |-> d.params]

\* a transport that sends again when the status is not 200
TransmitWithRetry(call, res) ==
    IF res.status_code = 200 THEN <<call>> ELSE <<call, call>>

\* requests.request(...) is called once per send_request
Transmit(call, res) == <<call>>

NoOutcome ==
    [op |-> "none", kind |-> "none", value |-> <<>>, fault |-> NoFault, traced |-> 0,
     log |-> <<>>, ret |-> <<>>]

\* a send that merges the auth header into a copy of the headers
\* (headers = dict(request_data["headers"])) and leaves the descriptor's alone
SendRequestOnCopy(i, auth_header, res) ==
    /\ pc[i] = "assembled"
    /\ LET d == desc[i]
           auth == IF auth_header.given THEN auth_header.map ELSE EmptyMap
           merged == Update(heap[d.headers], auth)
           result == SendOutcome(d.payload, res)
       IN  /\ calls' = calls \o Transmit(NetworkCall(i, d, merged), res)
           /\ out' = [out EXCEPT ![i] = result]
           /\ arg' = [arg EXCEPT ![i] = [req |-> arg[i].req, seen |-> arg[i].seen, d |-> d,
                                         headers |-> heap[d.headers],
                                         auth |-> auth_header, res |-> res]]
           /\ pc' = [pc EXCEPT ![i] = IF result.kind = "return" THEN "sent" ELSE "failed"]
    /\ sends' = sends + 1
    /\ UNCHANGED <<middlewares, mode, reqs, heap, desc, model>>

\* send_request(request_data, auth_header), the network answering res (a
\* transport that raises instead of answering is outside the model)
SendRequest(i, auth_header, res) ==
    /\ pc[i] = "assembled"
    /\ LET d == desc[i]
           auth == IF auth_header.given THEN auth_header.map ELSE EmptyMap
           merged == Update(heap[d.headers], auth)
           result == SendOutcome(d.payload, res)
       IN  /\ heap' = [heap EXCEPT ![d.headers] = merged]
           /\ calls' = calls \o Transmit(NetworkCall(i, d, merged), res)
           /\ out' = [out EXCEPT ![i] = result]
           /\ arg' = [arg EXCEPT ![i] = [req |-> arg[i].req, seen |-> arg[i].seen, d |-> d,
                                         headers |-> heap[d.headers],
                                         auth |-> auth_header, res |-> res]]
           /\ pc' = [pc EXCEPT ![i] = IF result.kind = "return" THEN "sent" ELSE "failed"]
    /\ sends' = sends + 1
    /\ UNCHANGED <<middlewares, mode, reqs, desc, model>>

----------------------------------------------------------------------------
(* The middlewares: collaborators exposing process_request and            *)
(* process_response.  The model registers these kinds:                     *)
(*   mark_a, mark_b  append their letter to the X-Mark header of the       *)
(*                   descriptor, in place, and to the notes of the model;  *)
(*   copy            returns a copy of what it is given;                   *)
(*   fault_req       faults in process_request;                            *)
(*   fault_resp      faults in process_response.                           *)

MiddlewareKinds == {"mark_a", "mark_b", "copy", "fault_req", "fault_resp"}

Chains == SeqsUpTo(MiddlewareKinds, MaxChain)

Marker(mw) == IF mw = "mark_a" THEN 97 ELSE 98

\* the fault the k-th middleware of the chain raises
Raised(mw, k) == [type |-> "MiddlewareFault", msg |-> <<102, 48 + k>>, by |-> k]

Marked(h, mw) ==
    Update(h, [x \in {"X-Mark"} |->
                  (IF "X-Mark" \in DOMAIN h THEN h["X-Mark"] ELSE <<>>) \o <<Marker(mw)>>])

\* mw.process_request(req), mw the k-th middleware, serving caller i
process_request(mw, k, i, d, hp) ==
    IF mw \in {"mark_a", "mark_b"}
    THEN [kind |-> "return", d |-> d, fault |-> NoFault,
          hp |-> [hp EXCEPT ![d.headers] = Marked(hp[d.headers], mw)]]
    ELSE IF mw = "copy"
    THEN [kind |-> "return", d |-> [d EXCEPT !.headers = <<"copy", i>>], fault |-> NoFault,
          hp |-> [hp EXCEPT ![<<"copy", i>>] = hp[d.headers]]]
    ELSE IF mw = "fault_req"
    THEN [kind |-> "raise", d |-> d, fault |-> Raised(mw, k), hp |-> hp]
    ELSE [kind |-> "return", d |-> d, fault |-> NoFault, hp |-> hp]

\* mw.process_response(resp); obj is the model object the stage was given,
\* which in-place changes reach until a middleware has returned a copy
process_response(mw, k, st) ==
    IF mw \in {"mark_a", "mark_b"}
    THEN LET m == [st.m EXCEPT !.notes = Append(@, Marker(mw))]
         IN  [kind |-> "return", m |-> m, fault |-> NoFault, detached |-> st.detached,
              obj |-> IF st.detached THEN st.obj ELSE m]
    ELSE IF mw = "copy"
    THEN [kind |-> "return", m |-> st.m, fault |-> NoFault, detached |-> TRUE, obj |-> st.obj]
    ELSE IF mw = "fault_resp"
    THEN [kind |-> "raise", m |-> st.m, fault |-> Raised(mw, k), detached |-> st.detached,
          obj |-> st.obj]
    ELSE [kind |-> "return", m |-> st.m, fault |-> NoFault, detached |-> st.detached,
          obj |-> st.obj]

\* what a middleware sees of a descriptor: its fields and its headers
Snapshot(d, hp) == [d |-> d, headers |-> hp[d.headers]]

\* the chain walked from its last middleware to its first
ReversedIteration(mws) == [k \in 1..Len(mws) |-> mws[Len(mws) + 1 - k]]

\* for mw in self.middlewares (request stage)
RequestIteration(mws) == mws

\* for mw in self.middlewares (response stage)
ResponseIteration(mws) == mws

\* a loop that catches a middleware's fault and goes on with the next one
RECURSIVE RequestLoopSwallowing(_, _, _, _)
RequestLoopSwallowing(i, chain, k, st) ==
    IF k > Len(chain)
    THEN [kind |-> "return", d |-> st.d, hp |-> st.hp, log |-> st.log, fault |-> NoFault]
    ELSE LET r == process_request(chain[k], k, i, st.d, st.hp)
             entry == [pos |-> k, mw |-> chain[k], kind |-> r.kind, fault |-> r.fault,
                       arg |-> Snapshot(st.d, st.hp), ret |-> Snapshot(r.d, r.hp)]
         IN  RequestLoopSwallowing(i, chain, k + 1,
                                   [d |-> r.d, hp |-> r.hp, log |-> Append(st.log, entry)])

\* the loop of execute_request_middlewares, from the k-th middleware on
RECURSIVE RequestLoop(_, _, _, _)
RequestLoop(i, chain, k, st) ==
    IF k > Len(chain)
    THEN [kind |-> "return", d |-> st.d, hp |-> st.hp, log |-> st.log, fault |-> NoFault]
    ELSE LET r == process_request(chain[k], k, i, st.d, st.hp)
             entry == [pos |-> k, mw |-> chain[k], kind |-> r.kind, fault |-> r.fault,
                       arg |-> Snapshot(st.d, st.hp), ret |-> Snapshot(r.d, r.hp)]
         IN  IF r.kind = "raise"
             THEN [kind |-> "raise", d |-> st.d, hp |-> r.hp, log |-> Append(st.log, entry),
                   fault |-> r.fault]
             ELSE RequestLoop(i, chain, k + 1,
                              [d |-> r.d, hp |-> r.hp, log |-> Append(st.log, entry)])

execute_request_middlewares(i, req, hp) ==
    RequestLoop(i, RequestIteration(middlewares), 1, [d |-> req, hp |-> hp, log |-> <<>>])

\* the loop of execute_response_middlewares, from the k-th middleware on
RECURSIVE ResponseLoop(_, _, _)
ResponseLoop(chain, k, st) ==
    IF k > Len(chain)
    THEN [kind |-> "return", m |-> st.m, obj |-> st.obj, log |-> st.log, fault |-> NoFault]
    ELSE LET r == process_response(chain[k], k, st)
             entry == [pos |-> k, mw |-> chain[k], kind |-> r.kind, fault |-> r.fault,
                       arg |-> st.m, ret |-> r.m]
         IN  IF r.kind = "raise"
             THEN [kind |-> "raise", m |-> st.m, obj |-> r.obj, log |-> Append(st.log, entry),
                   fault |-> r.fault]
             ELSE ResponseLoop(chain, k + 1,
                               [m |-> r.m, obj |-> r.obj, detached |-> r.detached,
                                log |-> Append(st.log, entry)])

\* a response stage that returns the plain mapping of the model it ends with
execute_response_middlewares_as_dict(resp) ==
    LET result == ResponseLoop(ResponseIteration(middlewares), 1,
                               [m |-> resp, obj |-> resp, detached |-> FALSE, log |-> <<>>])
    IN  [result EXCEPT !.m = [@ EXCEPT !.variant = "dict"]]

execute_response_middlewares(resp) ==
    ResponseLoop(ResponseIteration(middlewares), 1,
                 [m |-> resp, obj |-> resp, detached |-> FALSE, log |-> <<>>])

----------------------------------------------------------------------------
(* assemble_request *)

\* config["endpoints"]: the base URL of each mode, "https://api.mythx.io"
\* and "https://staging.api.mythx.io/api/" (one base without a path, one
\* with a path)
config(m) ==
    IF m = "staging"
    THEN [scheme |-> "https", netloc |-> "staging.api.mythx.io", path |-> <<"", "api", "">>]
    ELSE [scheme |-> "https", netloc |-> "api.mythx.io", path |-> <<"">>]

\* the endpoints of the domain requests: "/v1/auth/login", "v1/analyses"
Endpoints ==
    {[scheme |-> "", netloc |-> "", path |-> <<"", "v1", "auth", "login">>],
     [scheme |-> "", netloc |-> "", path |-> <<"v1", "analyses">>]}

\* filter(None, segments): the segments that are not empty
RECURSIVE NonEmpty(_)
NonEmpty(segments) ==
    IF segments = <<>> THEN <<>>
    ELSE (IF Head(segments) = "" THEN <<>> ELSE <<Head(segments)>>)
             \o NonEmpty(Tail(segments))

\* a join that returns the endpoint unresolved
urljoin_ignoring_base(base, url) == url

\* a join that keeps the base path whatever the endpoint
urljoin_keeping_base(base, url) ==
    LET bp == base.path
        dir == IF Len(bp) = 1 THEN <<"">> ELSE SubSeq(bp, 1, Len(bp) - 1)
        rel == IF url.path[1] = "" THEN Tail(url.path) ELSE url.path
    IN  [base EXCEPT !.path = dir \o rel]

\* urllib.parse.urljoin(base, url); a path is the list path.split("/").
\* No path of the model has a "." or ".." segment.
urljoin(base, url) ==
    IF url.scheme # "" THEN url
    ELSE IF url.netloc # "" THEN [url EXCEPT !.scheme = base.scheme]
    ELSE IF url.path = <<"">> THEN base
    ELSE IF url.path[1] = "" THEN [base EXCEPT !.path = url.path]
    ELSE LET bp == base.path
             base_parts == IF bp[Len(bp)] # "" THEN SubSeq(bp, 1, Len(bp) - 1) ELSE bp
             segments == base_parts \o url.path
             joined == <<segments[1]>>
                           \o NonEmpty(SubSeq(segments, 2, Len(segments) - 1))
                           \o <<segments[Len(segments)]>>
             rooted == IF joined[1] = "" THEN joined ELSE <<"">> \o joined
         IN  [base EXCEPT !.path = rooted]

\* the domain request objects: endpoint, method, payload, parameters, headers.
\* sharesHeaders: req.headers returns the dict stored in the object (else a
\* new dict with the same entries on every access)
DomainRequests ==
    [endpoint : Endpoints, method : {<<103, 101, 116>>, <<112, 111, 115, 116>>},
     payload : {PayloadNone, [t |-> "dict", s |-> <<>>]},
     parameters : {EmptyMap}, sharesHeaders : BOOLEAN]

\* what the caller observes on domain request r
Observed(r) == [fields |-> reqs[r], headers |-> heap[<<"req", r>>]]

\* assemble_request(req), req the domain request r, for caller i
AssembleRequest(i, r) ==
    /\ pc[i] = "idle"
    /\ LET R == reqs[r]
           url == urljoin(config(mode), R.endpoint)
           ref == IF R.sharesHeaders THEN <<"req", r>> ELSE <<"inv", i>>
           hp == [heap EXCEPT ![ref] = heap[<<"req", r>>]]
           base_request == [method |-> R.method, payload |-> R.payload,
                            params |-> R.parameters, headers |-> ref, url |-> url]
           result == execute_request_middlewares(i, base_request, hp)
       IN  /\ heap' = result.hp
           /\ desc' = [desc EXCEPT ![i] = IF result.kind = "return" THEN result.d ELSE @]
           /\ out' = [out EXCEPT ![i] =
                         [NoOutcome EXCEPT !.op = "assemble", !.kind = result.kind,
                                           !.fault = result.fault, !.log = result.log,
                                           !.ret = IF result.kind = "return"
                                                   THEN Snapshot(result.d, result.hp)
                                                   ELSE <<>>]]
           /\ arg' = [arg EXCEPT ![i] = [req |-> r, d |-> base_request,
                                         headers |-> heap[<<"req", r>>],
                                         seen |-> Observed(r)]]
           /\ pc' = [pc EXCEPT ![i] = IF result.kind = "return" THEN "assembled" ELSE "failed"]
    /\ UNCHANGED <<middlewares, mode, reqs, model, calls, sends>>

----------------------------------------------------------------------------
(* parse_response *)

Variants == {"Object", "Strict"}

NoModel == [variant |-> "none", fields |-> EmptyMap, notes |-> <<>>]

\* the values of field n of a model: "1", "2"
FieldValues == {<<49>>, <<50>>}

\* the instances of a variant, as its construction rule builds them: Object
\* has an optional field n, Strict requires it
Instances(variant) ==
    {[variant |-> variant, fields |-> f, notes |-> <<>>] :
        f \in {g \in {EmptyMap} \cup [{"n"} -> FieldValues] :
                  variant = "Strict" => "n" \in DOMAIN g}}

\* the JSON text of a model: {} or {"n":<value>}
Serialize(m) ==
    IF "n" \in DOMAIN m.fields
    THEN <<123, 34, 110, 34, 58>> \o m.fields["n"] \o <<125>>
    ELSE <<123, 125>>

\* json.loads(resp) for the texts of the model: {} and {"n":<digit>} are
\* read, anything else is no JSON
JsonLoads(resp) ==
    IF resp = <<123, 125>> THEN [ok |-> TRUE, fields |-> EmptyMap]
    ELSE IF /\ Len(resp) = 7
            /\ SubSeq(resp, 1, 5) = <<123, 34, 110, 34, 58>>
            /\ resp[6] \in 48..57
            /\ resp[7] = 125
         THEN [ok |-> TRUE, fields |-> [k \in {"n"} |-> <<resp[6]>>]]
         ELSE [ok |-> FALSE, fields |-> EmptyMap]

\* model.from_json(resp): the variant's construction rule
from_json(variant, resp) ==
    LET loaded == JsonLoads(resp)
    IN  IF ~loaded.ok
        THEN [ok |-> FALSE, m |-> NoModel,
              fault |-> [type |-> "JSONDecodeError", msg |-> resp, by |-> 0]]
        ELSE IF variant = "Strict" /\ "n" \notin DOMAIN loaded.fields
        THEN [ok |-> FALSE, m |-> NoModel,
              fault |-> [type |-> "ValidationError", msg |-> resp, by |-> 0]]
        ELSE [ok |-> TRUE, fault |-> NoFault,
              m |-> [variant |-> variant, fields |-> loaded.fields, notes |-> <<>>]]

\* a decoder that reports the construction rule's fault as an APIError
parse_response_wrapping(variant, resp) ==
    LET built == from_json(variant, resp)
        result == execute_response_middlewares(built.m)
    IN  IF ~built.ok
        THEN [kind |-> "raise", log |-> <<>>, ret |-> <<>>, obj |-> NoModel,
              fault |-> [type |-> "PythXAPIError", msg |-> built.fault.msg, by |-> 0]]
        ELSE [kind |-> result.kind, fault |-> result.fault, log |-> result.log,
              ret |-> IF result.kind = "return" THEN result.m ELSE <<>>,
              obj |-> result.obj]

\* a decoder that returns the model without the response stage
parse_response_unstaged(variant, resp) ==
    LET built == from_json(variant, resp)
    IN  IF ~built.ok
        THEN [kind |-> "raise", fault |-> built.fault, log |-> <<>>, ret |-> <<>>,
              obj |-> NoModel]
        ELSE [kind |-> "return", fault |-> NoFault, log |-> <<>>, ret |-> built.m,
              obj |-> built.m]

\* m = model.from_json(resp); return self.execute_response_middlewares(m)
parse_response(variant, resp) ==
    LET built == from_json(variant, resp)
        result == execute_response_middlewares(built.m)
    IN  IF ~built.ok
        THEN [kind |-> "raise", fault |-> built.fault, log |-> <<>>, ret |-> <<>>,
              obj |-> NoModel]
        ELSE [kind |-> result.kind, fault |-> result.fault, log |-> result.log,
              ret |-> IF result.kind = "return" THEN result.m ELSE <<>>,
              obj |-> result.obj]

\* a decoder whose response stage consumes self.middlewares as it walks it
\* (mw = self.middlewares.pop(0) until the list is empty)
ParseResponseConsuming(i, variant) ==
    /\ pc[i] = "sent"
    /\ LET resp == out[i].value
           result == parse_response(variant, resp)
       IN  /\ arg' = [arg EXCEPT ![i] = [req |-> arg[i].req, seen |-> arg[i].seen, resp |-> resp,
                                         variant |-> variant]]
           /\ out' = [out EXCEPT ![i] =
                         [NoOutcome EXCEPT !.op = "parse", !.kind = result.kind,
                                           !.fault = result.fault, !.log = result.log,
                                           !.ret = result.ret]]
           /\ model' = [model EXCEPT ![i] = result.obj]
           /\ pc' = [pc EXCEPT ![i] = IF result.kind = "return" THEN "done" ELSE "failed"]
           /\ middlewares' = SubSeq(middlewares, Len(result.log) + 1, Len(middlewares))
    /\ UNCHANGED <<mode, reqs, heap, desc, calls, sends>>

\* parse_response(resp, model), resp the text that caller i's send returned
ParseResponse(i, variant) ==
    /\ pc[i] = "sent"
    /\ LET resp == out[i].value
           result == parse_response(variant, resp)
       IN  /\ arg' = [arg EXCEPT ![i] = [req |-> arg[i].req, seen |-> arg[i].seen, resp |-> resp,
                                         variant |-> variant]]
           /\ out' = [out EXCEPT ![i] =
                         [NoOutcome EXCEPT !.op = "parse", !.kind = result.kind,
                                           !.fault = result.fault, !.log = result.log,
                                           !.ret = result.ret]]
           /\ model' = [model EXCEPT ![i] = result.obj]
           /\ pc' = [pc EXCEPT ![i] = IF result.kind = "return" THEN "done" ELSE "failed"]
    /\ UNCHANGED <<middlewares, mode, reqs, heap, desc, calls, sends>>

----------------------------------------------------------------------------
(* The stages, called on their own *)

\* execute_request_middlewares(req), req the descriptor caller i holds
ExecuteRequestMiddlewares(i) ==
    /\ pc[i] = "holds_descriptor"
    /\ LET result == execute_request_middlewares(i, desc[i], heap)
       IN  /\ heap' = result.hp
           /\ out' = [out EXCEPT ![i] =
                         [NoOutcome EXCEPT !.op = "request_stage", !.kind = result.kind,
                                           !.fault = result.fault, !.log = result.log,
                                           !.ret = IF result.kind = "return"
                                                   THEN Snapshot(result.d, result.hp)
                                                   ELSE <<>>]]
           /\ arg' = [arg EXCEPT ![i] = [req |-> 0, seen |-> <<>>, d |-> desc[i],
                                         headers |-> heap[desc[i].headers]]]
           /\ pc' = [pc EXCEPT ![i] = IF result.kind = "return" THEN "staged" ELSE "failed"]
    /\ UNCHANGED <<middlewares, mode, reqs, desc, model, calls, sends>>

\* execute_response_middlewares(resp), resp the model caller i holds
ExecuteResponseMiddlewares(i) ==
    /\ pc[i] = "holds_model"
    /\ LET result == execute_response_middlewares(model[i])
       IN  /\ model' = [model EXCEPT ![i] = result.obj]
           /\ out' = [out EXCEPT ![i] =
                         [NoOutcome EXCEPT !.op = "response_stage", !.kind = result.kind,
                                           !.fault = result.fault, !.log = result.log,
                                           !.ret = IF result.kind = "return"
                                                   THEN result.m ELSE <<>>]]
           /\ arg' = [arg EXCEPT ![i] = [req |-> 0, seen |-> <<>>, m |-> model[i]]]
           /\ pc' = [pc EXCEPT ![i] = IF result.kind = "return" THEN "staged" ELSE "failed"]
    /\ UNCHANGED <<middlewares, mode, reqs, heap, desc, calls, sends>>

----------------------------------------------------------------------------
(* Specifications *)

NoArg == [req |-> 0, seen |-> <<>>]

TokenMaps == {EmptyMap, [k \in {"Authorization"} |-> OwnValue]}

\* The pipeline: two callers of one handler, each running
\* assemble_request -> send_request -> parse_response on a domain request
PipelineChains == {c \in Chains : Len(c) <= 1}

PipelineRequests(r) ==
    {R \in DomainRequests :
        /\ R.endpoint.path[1] = "" <=> r = 1
        /\ R.method = <<103, 101, 116>> <=> r = 1
        /\ r # 1 => R.payload # PayloadNone}

Init ==
    /\ middlewares \in PipelineChains
    /\ mode \in {"production", "staging"}
    /\ reqs \in {f \in [ReqIds -> DomainRequests] : \A r \in ReqIds : f[r] \in PipelineRequests(r)}
    /\ \E h \in TokenMaps :
          heap = [ref \in Refs |-> IF ref = <<"req", 1>> THEN h ELSE EmptyMap]
    /\ desc = [i \in Invs |-> NoDesc(i)]
    /\ model = [i \in Invs |-> NoModel]
    /\ pc = [i \in Invs |-> "idle"]
    /\ arg = [i \in Invs |-> NoArg]
    /\ out = [i \in Invs |-> NoOutcome]
    /\ calls = <<>>
    /\ sends = 0

Assemble == \E i \in Invs, r \in ReqIds : AssembleRequest(i, r)

Send ==
    \E i \in Invs : \E auth \in AuthHeaders(i), res \in PipelineResponses :
        SendRequest(i, auth, res)

Parse == \E i \in Invs, variant \in Variants : ParseResponse(i, variant)

Next == Assemble \/ Send \/ Parse

Spec == Init /\ [][Next]_vars

\* send_request on its own: one descriptor, one auth header, one response
SendDescriptors(i) ==
    [method : Methods, payload : Payloads \ {[t |-> "str", s |-> <<97>>]}, params : ParamMaps,
     headers : {<<"inv", i>>},
     url : URLs]

InitSend ==
    /\ middlewares = <<>>
    /\ mode = "production"
    /\ reqs = [r \in ReqIds |-> CHOOSE R \in DomainRequests : TRUE]
    /\ \E h \in HeaderMaps({OwnValue}) :
          heap = [ref \in Refs |-> IF ref = <<"inv", 1>> THEN h ELSE EmptyMap]
    /\ \E d \in SendDescriptors(1) :
          desc = [i \in Invs |-> IF i = 1 THEN d ELSE NoDesc(i)]
    /\ model = [i \in Invs |-> NoModel]
    /\ pc = [i \in Invs |-> IF i = 1 THEN "assembled" ELSE "unused"]
    /\ arg = [i \in Invs |-> NoArg]
    /\ out = [i \in Invs |-> NoOutcome]
    /\ calls = <<>>
    /\ sends = 0

SendOne == \E auth \in AuthHeaders(1), res \in Responses : SendRequest(1, auth, res)

NextSend == SendOne

SpecSend == InitSend /\ [][NextSend]_vars

\* the stages on their own: caller 1 holds a descriptor, caller 2 a model
StageModels == [variant : {"Object"}, fields : {EmptyMap}, notes : {<<>>, <<99>>}]

InitStage ==
    /\ middlewares \in Chains
    /\ mode = "production"
    /\ reqs = [r \in ReqIds |-> CHOOSE R \in DomainRequests : TRUE]
    /\ \E h \in HeaderMaps({OwnValue}) :
          heap = [ref \in Refs |-> IF ref = <<"inv", 1>> THEN h ELSE EmptyMap]
    /\ \E d \in {x \in SendDescriptors(1) :
                    x.method = <<71, 69, 84>> /\ x.payload.t = "dict" /\ x.params = EmptyMap} :
          desc = [i \in Invs |-> IF i = 1 THEN d ELSE NoDesc(i)]
    /\ \E m \in StageModels :
          model = [i \in Invs |-> IF i = 2 THEN m ELSE NoModel]
    /\ pc = [i \in Invs |-> IF i = 1 THEN "holds_descriptor" ELSE "holds_model"]
    /\ arg = [i \in Invs |-> NoArg]
    /\ out = [i \in Invs |-> NoOutcome]
    /\ calls = <<>>
    /\ sends = 0

RequestStage == ExecuteRequestMiddlewares(1)

ResponseStage == ExecuteResponseMiddlewares(2)

NextStage == RequestStage \/ ResponseStage

SpecStage == InitStage /\ [][NextStage]_vars

\* parse_response on its own: caller 1 holds the text a send returned
RawTexts ==
    {Serialize(m) : m \in UNION {Instances(v) : v \in Variants}}
        \cup {<<>>, <<125>>, <<123, 34, 110, 34, 58, 125>>}

InitParse ==
    /\ middlewares \in Chains
    /\ mode = "production"
    /\ reqs = [r \in ReqIds |-> CHOOSE R \in DomainRequests : TRUE]
    /\ heap = [ref \in Refs |-> EmptyMap]
    /\ desc = [i \in Invs |-> NoDesc(i)]
    /\ model = [i \in Invs |-> NoModel]
    /\ pc = [i \in Invs |-> IF i = 1 THEN "sent" ELSE "unused"]
    /\ arg = [i \in Invs |-> NoArg]
    /\ \E resp \in RawTexts :
          out = [i \in Invs |-> IF i = 1
                                 THEN [NoOutcome EXCEPT !.op = "send", !.kind = "return",
                                                        !.value = resp]
                                 ELSE NoOutcome]
    /\ calls = <<>>
    /\ sends = 0

ParseOne == \E variant \in Variants : ParseResponse(1, variant)

NextParse == ParseOne

SpecParse == InitParse /\ [][NextParse]_vars

----------------------------------------------------------------------------
(* Properties of send_request, checked under SpecSend *)

Sent(i) == out[i].op = "send"

\* C1: send returns a value if and only if the status code is exactly 200,
\* the value being the response body text; for every other status code it
\* fails with APIError.
C1_ReturnsIffStatus200 ==
    \A i \in Invs : Sent(i) =>
        /\ out[i].kind = "return" <=> arg[i].res.status_code = 200
        /\ out[i].kind = "return" => out[i].value = ResponseText(arg[i].res)
        /\ arg[i].res.status_code # 200 =>
              out[i].kind = "raise" /\ out[i].fault.type = "PythXAPIError"

\* C2 as stated: whenever send fails with APIError, the message contains
\* the numeric status code and the body text of the response verbatim.
C2_MessageCarriesBodyText ==
    \A i \in Invs : (Sent(i) /\ out[i].fault.type = "PythXAPIError") =>
        /\ Contains(out[i].fault.msg, Decimal(arg[i].res.status_code))
        /\ Contains(out[i].fault.msg, ResponseText(arg[i].res))

\* C2 amended: whenever send fails with APIError, the status is not 200
\* and the message contains the decimal status code and the body bytes
\* decoded as UTF-8, which is the body text verbatim when the response's
\* encoding is UTF-8.
C2_MessageCarriesUtf8Body ==
    \A i \in Invs : (Sent(i) /\ out[i].fault.type = "PythXAPIError") =>
        LET res == arg[i].res
            msg == out[i].fault.msg
        IN  /\ res.status_code # 200
            /\ Utf8Strict(res.content).ok
            /\ Contains(msg, Decimal(res.status_code))
            /\ Contains(msg, Utf8Strict(res.content).text)
            /\ res.encoding = "utf-8" => Contains(msg, ResponseText(res))

\* a send that failed with APIError on status 503 with a body of U+00E9
C2_Witness ==
    \E i \in Invs :
        /\ Sent(i) /\ out[i].fault.type = "PythXAPIError"
        /\ arg[i].res.status_code = 503
        /\ arg[i].res.content = <<195, 169>>
        /\ arg[i].res.encoding = "utf-8"

\* C3: the headers of the outgoing call are the descriptor's headers
\* overridden by the auth header: a key of both carries the auth header's
\* value, a key of the descriptor alone keeps its value, and an absent or
\* empty auth header leaves the headers as the descriptor's.
C3_AuthHeaderOverrides ==
    \A n \in DOMAIN calls :
        LET c == calls[n]
            own == arg[c.inv].headers
            given == arg[c.inv].auth
            auth == IF given.given THEN given.map ELSE EmptyMap
        IN  Sent(c.inv) =>
              /\ DOMAIN c.headers = (DOMAIN own) \cup (DOMAIN auth)
              /\ \A k \in DOMAIN auth : c.headers[k] = auth[k]
              /\ \A k \in (DOMAIN own) \ (DOMAIN auth) : c.headers[k] = own[k]
              /\ (~given.given \/ auth = EmptyMap) => c.headers = own

\* a call whose descriptor and auth header both define Authorization,
\* with different values, next to a header of the descriptor alone
C3_Witness ==
    \E n \in DOMAIN calls :
        LET c == calls[n]
            own == arg[c.inv].headers
            given == arg[c.inv].auth
        IN  /\ Sent(c.inv) /\ given.given
            /\ "Authorization" \in (DOMAIN own) \cap (DOMAIN given.map)
            /\ own["Authorization"] # given.map["Authorization"]
            /\ "X-Mark" \in DOMAIN own

\* C8: the trace never alters control flow: send ends in the raw body or
\* in APIError, never in another fault, and both trace lines are emitted.
C8_TraceNeverFaults ==
    \A i \in Invs : Sent(i) =>
        /\ out[i].fault.type \in {"none", "PythXAPIError"}
        /\ out[i].traced = 2

----------------------------------------------------------------------------
(* Properties of the middleware stages, checked under SpecStage *)

Marks == {"mark_a", "mark_b"}

RequestStaged(i) == out[i].op = "request_stage"
ResponseStaged(i) == out[i].op = "response_stage"

\* C4: the request stage invokes each middleware's request transform once,
\* in registration order, each receiving what the previous one returned (the
\* first the input descriptor), and returns what the last one returned; with
\* an empty chain it returns the input descriptor.
C4_RequestStageInOrder ==
    \A i \in Invs : RequestStaged(i) =>
        LET log == out[i].log
            n == Len(middlewares)
            input == [d |-> arg[i].d, headers |-> arg[i].headers]
        IN  /\ (\A k \in 1..n : middlewares[k] # "fault_req") => out[i].kind = "return"
            /\ out[i].kind = "return" =>
                  /\ Len(log) = n
                  /\ \A k \in 1..n :
                        /\ log[k].mw = middlewares[k]
                        /\ log[k].kind = "return"
                        /\ log[k].arg = IF k = 1 THEN input ELSE log[k - 1].ret
                  /\ out[i].ret = IF n = 0 THEN input ELSE log[n].ret

\* the chain [mark_a, mark_b, copy] ran on a descriptor: X-Mark ends in "ab"
C4_Witness ==
    \E i \in Invs :
        /\ RequestStaged(i) /\ out[i].kind = "return"
        /\ middlewares = <<"mark_a", "mark_b", "copy">>
        /\ out[i].ret.headers["X-Mark"] = <<97, 98>>

\* C5: the response stage invokes the response transforms in the same
\* forward registration order, each receiving the model the previous one
\* returned, and returns the model the last one returned.
C5_ResponseStageInOrder ==
    \A i \in Invs : ResponseStaged(i) =>
        LET log == out[i].log
            n == Len(middlewares)
            input == arg[i].m
        IN  /\ (\A k \in 1..n : middlewares[k] # "fault_resp") => out[i].kind = "return"
            /\ out[i].kind = "return" =>
                  /\ Len(log) = n
                  /\ \A k \in 1..n :
                        /\ log[k].mw = middlewares[k]
                        /\ log[k].kind = "return"
                        /\ log[k].arg = IF k = 1 THEN input ELSE log[k - 1].ret
                  /\ out[i].ret = IF n = 0 THEN input ELSE log[n].ret

\* the chain [mark_b, copy, mark_a] ran on a model: its notes end in "ba"
C5_Witness ==
    \E i \in Invs :
        /\ ResponseStaged(i) /\ out[i].kind = "return"
        /\ middlewares = <<"mark_b", "copy", "mark_a">>
        /\ out[i].ret.notes = arg[i].m.notes \o <<98, 97>>

\* the headers dict after the in-place changes of a chain prefix: the marks
\* up to the first copy
RECURSIVE InPlaceHeaders(_, _)
InPlaceHeaders(h, prefix) ==
    IF prefix = <<>> \/ Head(prefix) = "copy" THEN h
    ELSE IF Head(prefix) \in Marks
         THEN InPlaceHeaders(Marked(h, Head(prefix)), Tail(prefix))
         ELSE InPlaceHeaders(h, Tail(prefix))

RECURSIVE InPlaceNotes(_, _)
InPlaceNotes(notes, prefix) ==
    IF prefix = <<>> \/ Head(prefix) = "copy" THEN notes
    ELSE IF Head(prefix) \in Marks
         THEN InPlaceNotes(Append(notes, Marker(Head(prefix))), Tail(prefix))
         ELSE InPlaceNotes(notes, Tail(prefix))

\* C6: in either stage, when middleware mk faults, no later middleware is
\* invoked, the stage returns no value, the fault reaching the caller is the
\* one mk raised, and what m1..m(k-1) changed in place stays changed.
C6_FaultAbortsStage ==
    \A i \in Invs : (RequestStaged(i) \/ ResponseStaged(i)) =>
        LET log == out[i].log
        IN  /\ out[i].kind = "raise" => Len(log) > 0 /\ log[Len(log)].kind = "raise"
            /\ \A k \in DOMAIN log : log[k].kind = "raise" =>
                  /\ k = Len(log)
                  /\ log[k].mw = middlewares[k]
                  /\ out[i].kind = "raise"
                  /\ out[i].ret = <<>>
                  /\ out[i].fault = log[k].fault
                  /\ out[i].fault = Raised(middlewares[k], k)
                  /\ RequestStaged(i) =>
                        heap[arg[i].d.headers] =
                            InPlaceHeaders(arg[i].headers, SubSeq(middlewares, 1, k - 1))
                  /\ ResponseStaged(i) =>
                        model[i].notes =
                            InPlaceNotes(arg[i].m.notes, SubSeq(middlewares, 1, k - 1))

\* with the chain [mark_a, fault_req, fault_resp] both stages have faulted,
\* the request stage at the second and the response stage at the third
\* middleware, and the mark of the first is in the descriptor and the model
C6_Witness ==
    /\ middlewares = <<"mark_a", "fault_req", "fault_resp">>
    /\ \E i \in Invs :
          /\ RequestStaged(i) /\ out[i].kind = "raise" /\ out[i].fault.by = 2
          /\ heap[arg[i].d.headers]["X-Mark"] = <<97>>
    /\ \E i \in Invs :
          /\ ResponseStaged(i) /\ out[i].kind = "raise" /\ out[i].fault.by = 3
          /\ model[i].notes = Append(arg[i].m.notes, 97)

----------------------------------------------------------------------------
(* Properties of the pipeline, checked under Spec *)

\* caller i has invoked send_request
HasSent(i) ==
    \/ pc[i] \in {"sent", "done"}
    \/ pc[i] = "failed" /\ out[i].op \in {"send", "parse"}

CallsOf(i) == {n \in DOMAIN calls : calls[n].inv = i}

\* C7: the number of network calls equals the number of send invocations:
\* one call per send, whether it returns or fails, and none by assemble or
\* decode, also when a middleware faults.
C7_OneCallPerSend ==
    /\ Len(calls) = sends
    /\ sends = Cardinality({i \in Invs : HasSent(i)})
    /\ \A i \in Invs : Cardinality(CallsOf(i)) = IF HasSent(i) THEN 1 ELSE 0

\* two sends have been made: one ended in APIError, the other returned and
\* its decode was aborted by a faulting response middleware
C7_Witness ==
    /\ sends = 2
    /\ \E i \in Invs : out[i].op = "send" /\ out[i].fault.type = "PythXAPIError"
    /\ \E i \in Invs : out[i].op = "parse" /\ out[i].fault.type = "MiddlewareFault"

\* C9: after assemble(R) and send of the resulting descriptor, with no
\* middleware or with middlewares that leave the headers alone, the caller
\* observes on R the endpoint, method, payload, parameters and headers it
\* observed before assemble.
C9_DomainRequestUntouched ==
    \A i \in Invs :
        (Sent(i) /\ \A k \in DOMAIN middlewares : middlewares[k] \notin Marks) =>
            Observed(arg[i].req) = arg[i].seen

\* C10: no outgoing call of an invocation carries a header entry that came
\* from the other invocation's auth header.
C10_NoForeignAuthEntry ==
    \A n \in DOMAIN calls :
        \A k \in DOMAIN calls[n].headers :
            \A j \in Invs \ {calls[n].inv} : calls[n].headers[k] # Token(j)

----------------------------------------------------------------------------
(* Properties of parse_response, checked under SpecParse *)

Parsed(i) == out[i].op = "parse"

\* C11: when the variant's construction rule rejects the raw text, decode
\* invokes no response middleware, returns no model, and the fault reaching
\* the caller is the fault the construction rule raised.
C11_ConstructionFaultPropagates ==
    \A i \in Invs : Parsed(i) =>
        LET built == from_json(arg[i].variant, arg[i].resp)
        IN  ~built.ok =>
              /\ out[i].kind = "raise"
              /\ out[i].log = <<>>
              /\ out[i].ret = <<>>
              /\ out[i].fault = built.fault
              /\ out[i].fault.type \in {"JSONDecodeError", "ValidationError"}
              /\ model[i] = NoModel

\* variant Strict rejected the text {} while a middleware was registered
C11_Witness ==
    \E i \in Invs :
        /\ Parsed(i) /\ arg[i].variant = "Strict" /\ arg[i].resp = <<123, 125>>
        /\ middlewares = <<"mark_a">>
        /\ out[i].fault.type = "ValidationError"

\* the letters the marking middlewares of a chain append, in chain order
RECURSIVE MarkersOf(_)
MarkersOf(chain) ==
    IF chain = <<>> THEN <<>>
    ELSE (IF Head(chain) \in Marks THEN <<Marker(Head(chain))>> ELSE <<>>)
             \o MarkersOf(Tail(chain))

\* C12: for every raw text the variant accepts, decode returns the result
\* of the response stage applied to the model the construction rule builds;
\* with no response middleware, decode(serialize(v), V) equals v field-wise.
C12_DecodeReturnsStagedModel ==
    \A i \in Invs : Parsed(i) =>
        LET built == from_json(arg[i].variant, arg[i].resp)
            n == Len(middlewares)
            faulting == \E k \in 1..n : middlewares[k] = "fault_resp"
        IN  built.ok =>
              /\ out[i].kind = IF faulting THEN "raise" ELSE "return"
              /\ ~faulting =>
                    /\ Len(out[i].log) = n
                    /\ \A k \in 1..n : out[i].log[k].mw = middlewares[k]
                    /\ out[i].ret.variant = built.m.variant
                    /\ out[i].ret.fields = built.m.fields
                    /\ out[i].ret.notes = built.m.notes \o MarkersOf(middlewares)
              /\ n = 0 =>
                    \A v \in Instances(arg[i].variant) :
                        arg[i].resp = Serialize(v) => out[i].ret = v

\* with no middleware, the text {"n":2} was decoded into variant Strict
C12_Witness ==
    \E i \in Invs :
        /\ Parsed(i) /\ out[i].kind = "return" /\ middlewares = <<>>
        /\ arg[i].variant = "Strict"
        /\ arg[i].resp = Serialize([variant |-> "Strict", fields |-> [k \in {"n"} |-> <<50>>],
                                    notes |-> <<>>])
        /\ out[i].ret.fields["n"] = <<50>>

----------------------------------------------------------------------------
(* Properties of assemble_request, checked under Spec *)

Assembled(i) == out[i].op = "assemble"

\* the directory of a base path: the path up to and including its last "/"
BaseDirectory(bp) == IF Len(bp) = 1 THEN <<"">> ELSE SubSeq(bp, 1, Len(bp) - 1)

\* C13: the url of the descriptor assemble(R) builds is the URL-join of the
\* base URL of the handler's environment and R.endpoint (an absolute path
\* replaces the base path, a relative path is appended to it), and its
\* method, payload, params and headers are R's; that descriptor is what
\* assemble returns when no middleware rewrites it.
C13_AssembledFromRequest ==
    \A i \in Invs : Assembled(i) =>
        LET R == arg[i].seen.fields
            base == config(mode)
            d == arg[i].d
        IN  /\ d.url.scheme = base.scheme
            /\ d.url.netloc = base.netloc
            /\ d.url.path = IF R.endpoint.path[1] = ""
                            THEN R.endpoint.path
                            ELSE BaseDirectory(base.path) \o R.endpoint.path
            /\ d.method = R.method
            /\ d.payload = R.payload
            /\ d.params = R.parameters
            /\ arg[i].headers = arg[i].seen.headers
            /\ out[i].kind = "return" =>
                  /\ out[i].ret.d.url = d.url
                  /\ out[i].ret.d.method = R.method
                  /\ out[i].ret.d.payload = R.payload
                  /\ out[i].ret.d.params = R.parameters
                  /\ (\A k \in 1..Len(middlewares) : middlewares[k] \notin Marks)
                        => out[i].ret.headers = arg[i].seen.headers

\* on the staging handler, whose base URL has the path /api/, a request with
\* the absolute endpoint /v1/auth/login was assembled
C13_Witness ==
    \E i \in Invs :
        /\ Assembled(i) /\ out[i].kind = "return" /\ mode = "staging"
        /\ arg[i].seen.fields.endpoint.path = <<"", "v1", "auth", "login">>
        /\ out[i].ret.d.url.path = <<"", "v1", "auth", "login">>

----------------------------------------------------------------------------
(* The pipeline configuration, checked under Spec *)

\* C14: the handler's middleware sequence (members and order) and its
\* environment selector are never changed after construction: no step of
\* assemble, send or decode, faulting or not, with the request and response
\* stages they run, alters self.middlewares or self.mode.
C14_ConfigurationFixed == [][middlewares' = middlewares /\ mode' = mode]_vars

\* a decode whose response stage faulted, on a staging handler that still
\* holds its one middleware
C14_Witness ==
    \E i \in Invs :
        /\ out[i].op = "parse" /\ out[i].kind = "raise"
        /\ out[i].fault.type # "JSONDecodeError"
        /\ middlewares = <<"fault_resp">> /\ mode = "staging"

----------------------------------------------------------------------------
(* The descriptors that reach the network, checked under Spec *)

\* an absolute URL names its scheme and its host
Absolute(url) == url.scheme # "" /\ url.netloc # ""

\* C15: every descriptor that reaches the network call of send, assembled
\* from any domain request and passed through any registered chain, has a
\* non-empty method and an absolute url, and so has every call made.
C15_DescriptorWellFormed ==
    /\ \A i \in Invs : Sent(i) =>
           /\ arg[i].d.method # <<>>
           /\ Absolute(arg[i].d.url)
    /\ \A n \in DOMAIN calls :
           /\ calls[n].method # <<>>
           /\ Absolute(calls[n].url)

\* a descriptor assembled from the relative endpoint v1/analyses and passed
\* through the copying middleware was sent
C15_Witness ==
    \E i \in Invs :
        /\ Sent(i) /\ middlewares = <<"copy">>
        /\ reqs[arg[i].req].endpoint.path = <<"v1", "analyses">>
        /\ \E n \in DOMAIN calls : calls[n].inv = i /\ calls[n].url = arg[i].d.url

----------------------------------------------------------------------------
(* The variant of a decoded model, checked under SpecParse *)

\* C16: the response stage returns a model of the variant it was given, and
\* so decode returns a model of the variant the caller requested; every
\* middleware of the chain hands on the variant it received.  (The
\* registered middlewares change field values only.)
C16_VariantPreserved ==
    \A i \in Invs : Parsed(i) /\ from_json(arg[i].variant, arg[i].resp).ok =>
        /\ out[i].kind = "return" => out[i].ret.variant = arg[i].variant
        /\ model[i].variant = arg[i].variant
        /\ \A k \in DOMAIN out[i].log :
               out[i].log[k].kind = "return" =>
                   /\ out[i].log[k].arg.variant = arg[i].variant
                   /\ out[i].log[k].ret.variant = arg[i].variant

\* a Strict model came back from the chain [mark_a, copy, mark_b] with both
\* letters noted and its variant unchanged
C16_Witness ==
    \E i \in Invs :
        /\ Parsed(i) /\ out[i].kind = "return"
        /\ middlewares = <<"mark_a", "copy", "mark_b">>
        /\ arg[i].variant = "Strict"
        /\ out[i].ret.variant = "Strict"
        /\ out[i].ret.notes = <<97, 98>>

----------------------------------------------------------------------------
(* The frame of send_request, checked under SpecSend *)

\* C17: after send(d, auth) has returned or failed with APIError, d's
\* method, url, payload and params are what they were, and d's headers are
\* their previous value overridden by every entry of auth: the merge is
\* made in d's own headers and stays there.
C17_SendChangesHeadersOnly ==
    \A i \in Invs : (Sent(i) /\ out[i].fault.type \in {"none", "PythXAPIError"}) =>
        LET before == arg[i].d
            own == arg[i].headers
            auth == IF arg[i].auth.given THEN arg[i].auth.map ELSE EmptyMap
            after == heap[desc[i].headers]
        IN  /\ desc[i].method = before.method
            /\ desc[i].url = before.url
            /\ desc[i].payload = before.payload
            /\ desc[i].params = before.params
            /\ desc[i].headers = before.headers
            /\ DOMAIN after = (DOMAIN own) \cup (DOMAIN auth)
            /\ \A k \in DOMAIN auth : after[k] = auth[k]
            /\ \A k \in (DOMAIN own) \ (DOMAIN auth) : after[k] = own[k]

\* a send that failed with APIError left the auth header's Authorization in
\* a descriptor that had none, next to the descriptor's own X-Mark
C17_Witness ==
    \E i \in Invs :
        /\ Sent(i) /\ out[i].fault.type = "PythXAPIError"
        /\ arg[i].auth.given
        /\ DOMAIN arg[i].headers = {"X-Mark"}
        /\ "Authorization" \in DOMAIN arg[i].auth.map
        /\ DOMAIN heap[desc[i].headers] = {"Authorization", "X-Mark"}

----------------------------------------------------------------------------
(* The outgoing call of send_request, checked under SpecSend *)

\* C18: the verb of the outgoing call is the descriptor's method in upper
\* case (no lower-case letter, and each letter the descriptor's or its
\* capital), so get and GET both go out as GET; the url, payload and params
\* of the call are the descriptor's.
C18_CallMatchesDescriptor ==
    \A n \in DOMAIN calls :
        LET c == calls[n]
            d == arg[c.inv].d
        IN  Sent(c.inv) =>
              /\ Len(c.method) = Len(d.method)
              /\ \A k \in DOMAIN d.method :
                    /\ c.method[k] \notin 97..122
                    /\ d.method[k] \in {c.method[k], c.method[k] + 32}
              /\ d.method \in {<<103, 101, 116>>, <<71, 69, 84>>} => c.method = <<71, 69, 84>>
              /\ c.url = d.url
              /\ c.json = d.payload
              /\ c.params = d.params

\* the descriptor with method get, a payload and the parameter limit went
\* out as GET
C18_Witness ==
    \E n \in DOMAIN calls :
        LET c == calls[n]
            d == arg[c.inv].d
        IN  /\ Sent(c.inv)
            /\ d.method = <<103, 101, 116>> /\ c.method = <<71, 69, 84>>
            /\ d.payload.t = "dict" /\ "limit" \in DOMAIN c.params

====
